---- MODULE Spec2Model ----
(***************************************************************************)
(* The four patch scripts of scripts/:                                     *)
(*   apply-precise-fix.py            line-window patcher (backend file)    *)
(*   apply-batch1-fix.py             str.replace patcher (backend file)    *)
(*   apply-frontend-fix.py           str.replace patcher (frontend file)   *)
(*   apply-batch1-standardization.py re.sub patcher, both files, main()    *)
(*                                                                         *)
(* A file's text is a sequence of tokens.  A token is a piece of text the  *)
(* scripts look for or write (or a piece of text they do not care about);  *)
(* "\n" is a token of its own, so lines, substring search across lines and *)
(* whitespace stripping are computed on the text and not assumed.          *)
(*                                                                         *)
(* Every script is run against its own checkout of the same original       *)
(* files, so the outputs of different scripts on one input can be compared *)
(* and one script can be run twice in a row.                               *)
(***************************************************************************)
EXTENDS Integers, Sequences, FiniteSets, TLC

-----------------------------------------------------------------------------
(* Tokens *)

NL      == "\n"
SP2     == "  "
IND     == "      "
ANCHOR  == "res.status(200).json({"
STATUS  == "        status: 'success',"
DATA    == "        data: result,"
CLOSE   == "});"
CMT     == "// Standard response format: flat data with optional metadata"
DATAM   == "        data: result.model,"
META    == "        meta: {"
AUDIT   == "          auditLog: result.auditLog,"
METAEND == "        },"
UPD     == "updateModelTier = async"
REV     == "revertTierChange = async"
END     == "};"
CODE    == "next(error);"

\* str.isspace() on a token: the tokens str.strip() removes
Whitespace == {NL, SP2, IND}

-----------------------------------------------------------------------------
(* Text helpers *)

\* ''.join(parts): the concatenation of a sequence of texts
RECURSIVE Flatten(_)
Flatten(parts) ==
    IF parts = <<>> THEN <<>> ELSE Head(parts) \o Flatten(Tail(parts))

\* text.startswith(pat)
StartsWith(text, pat) ==
    /\ Len(pat) <= Len(text)
    /\ SubSeq(text, 1, Len(pat)) = pat

\* str.replace(old, new) (count < 0) and re.sub(pattern, repl, s, count) for a
\* fully escaped pattern: leftmost non-overlapping occurrences, left to right.
RECURSIVE Replace(_, _, _, _)
Replace(text, pat, repl, count) ==
    IF count = 0 \/ Len(text) < Len(pat) THEN text
    ELSE IF StartsWith(text, pat)
         THEN repl \o Replace(SubSeq(text, Len(pat) + 1, Len(text)), pat, repl, count - 1)
         ELSE <<Head(text)>> \o Replace(Tail(text), pat, repl, count)

\* f.readlines(): the lines of the text, each keeping its "\n"; a last line
\* without "\n" is returned as it is
RECURSIVE ReadLinesFrom(_, _)
ReadLinesFrom(text, cur) ==
    IF text = <<>> THEN (IF cur = <<>> THEN <<>> ELSE <<cur>>)
    ELSE IF Head(text) = NL
         THEN <<Append(cur, NL)>> \o ReadLinesFrom(Tail(text), <<>>)
         ELSE ReadLinesFrom(Tail(text), Append(cur, Head(text)))

ReadLines(text) == ReadLinesFrom(text, <<>>)

\* 'needle' in line
Contains(line, needle) == \E k \in 1..Len(line) : line[k] = needle

\* line.strip()
RECURSIVE LStrip(_)
LStrip(line) ==
    IF line # <<>> /\ Head(line) \in Whitespace THEN LStrip(Tail(line)) ELSE line

RECURSIVE RStrip(_)
RStrip(line) ==
    IF line # <<>> /\ line[Len(line)] \in Whitespace
    THEN RStrip(SubSeq(line, 1, Len(line) - 1))
    ELSE line

Strip(line) == RStrip(LStrip(line))

-----------------------------------------------------------------------------
(* apply-precise-fix.py *)

\* (mutant) the data line still returns result, not result.model
ReplacementLines_oldData ==
    << <<IND, CMT, NL>>, <<IND, ANCHOR, NL>>, <<STATUS, NL>>, <<DATA, NL>>,
       <<META, NL>>, <<AUDIT, NL>>, <<METAEND, NL>>, <<IND, CLOSE, NL>> >>

\* the eight output_lines.append(...) of the replacement
ReplacementLines ==
    << <<IND, CMT, NL>>, <<IND, ANCHOR, NL>>, <<STATUS, NL>>, <<DATAM, NL>>,
       <<META, NL>>, <<AUDIT, NL>>, <<METAEND, NL>>, <<IND, CLOSE, NL>> >>

\* i += 4
WindowSize == 4

\* in_update_model_tier after the line has been looked at
NextInUpdate(line, in_update_model_tier) ==
    IF Contains(line, UPD) THEN TRUE
    ELSE IF in_update_model_tier /\ Strip(line) = <<END>> THEN FALSE
    ELSE in_update_model_tier

\* in_revert_tier_change after the line has been looked at
NextInRevert(line, in_revert_tier_change) ==
    IF Contains(line, REV) THEN TRUE
    ELSE IF in_revert_tier_change /\ Strip(line) = <<END>> THEN FALSE
    ELSE in_revert_tier_change

\* (mutant) the scan skips the 3 lines after the anchor's own index
SkipAfterHit_three(i) == i + 3

\* the step of the scan after an anchor hit
SkipAfterHit(i) == i + WindowSize

\* the while loop; hits records the indexes (1-based) at which the
\* replacement branch was taken
RECURSIVE Scan(_, _, _, _, _, _)
Scan(lines, i, in_update_model_tier, in_revert_tier_change, output_lines, hits) ==
    IF i > Len(lines) THEN [output_lines |-> output_lines, hits |-> hits]
    ELSE LET line == lines[i]
             u == NextInUpdate(line, in_update_model_tier)
             r == NextInRevert(line, in_revert_tier_change)
         IN  IF (u \/ r) /\ Contains(line, ANCHOR)
             THEN Scan(lines, SkipAfterHit(i), u, r,
                       output_lines \o ReplacementLines, Append(hits, i))
             ELSE Scan(lines, i + 1, u, r, Append(output_lines, line), hits)

\* the whole script on the text of the file: readlines, scan, writelines
PreciseFix(content) ==
    LET res == Scan(ReadLines(content), 1, FALSE, FALSE, <<>>, <<>>)
    IN  [content |-> Flatten(res.output_lines), hits |-> res.hits]

-----------------------------------------------------------------------------
(* apply-batch1-fix.py *)

\* old
old_batch1 == <<IND, ANCHOR, NL, STATUS, NL, DATA, NL, IND, CLOSE>>

\* new
new_batch1 ==
    <<IND, CMT, NL, IND, ANCHOR, NL, STATUS, NL, DATAM, NL, META, NL,
      AUDIT, NL, METAEND, NL, IND, CLOSE>>

\* (mutant) old and new given to replace() in the wrong order
Batch1Fix_swapped(content) == Replace(content, new_batch1, old_batch1, -1)

\* content = content.replace(old, new)
Batch1Fix(content) == Replace(content, old_batch1, new_batch1, -1)

-----------------------------------------------------------------------------
(* apply-frontend-fix.py *)

\* Tokens of the frontend API client
FIND    == "    "
HEAD    == "const response = await apiClient.patch<{\n      status: string;\n"
OLDDATA == "      data: { model: ModelTierInfo; auditLog: any };\n"
NEWDATA == "      data: ModelTierInfo;\n      meta?: { auditLog: any };\n"
\* (the template literal's backquotes cannot be written in a TLA+ string)
MID     == "    }>(\n      /admin/models/${modelId}/tier,\n      data\n    );\n"
OLDTAIL == "    // Backend returns { model: {...}, auditLog: {...} }, extract model only\n    return response.data.data.model;"
NEWTAIL == "    // Backend returns flat data\n    return response.data.data;"

\* old (starts with the four spaces of the indentation)
old_frontend == <<FIND, HEAD, OLDDATA, MID, OLDTAIL>>

\* new
new_frontend == <<FIND, HEAD, NEWDATA, MID, NEWTAIL>>

\* content = content.replace(old, new)
FrontendFix(content) == Replace(content, old_frontend, new_frontend, -1)

-----------------------------------------------------------------------------
(* apply-batch1-standardization.py *)

\* old_pattern_1: every metacharacter is escaped, so the pattern matches
\* exactly this text
old_pattern_1 == <<IND, ANCHOR, NL, STATUS, NL, DATA, NL, IND, CLOSE>>

\* new_code_1: no backslash, so the template is the text itself
new_code_1 ==
    <<IND, CMT, NL, IND, ANCHOR, NL, STATUS, NL, DATAM, NL, META, NL,
      AUDIT, NL, METAEND, NL, IND, CLOSE>>

\* count=2
SubCount == 2

\* (mutant) re.sub with count=1: only the first method is updated
update_backend_controller_once(content) ==
    Replace(content, old_pattern_1, new_code_1, 1)

\* content = re.sub(old_pattern_1, new_code_1, content, count=2)
update_backend_controller(content) ==
    Replace(content, old_pattern_1, new_code_1, SubCount)

\* old_pattern (starts at "const response", without indentation)
old_pattern == <<HEAD, OLDDATA, MID, OLDTAIL>>

\* new_code
new_code == <<HEAD, NEWDATA, MID, NEWTAIL>>

\* content = re.sub(old_pattern, new_code, content)
update_frontend_api_client(content) == Replace(content, old_pattern, new_code, -1)

\* main(): the try block runs the two updates in order; an exception (open()
\* failing) ends the block and main returns 1, otherwise it returns 0
main(b, f, canOpen) ==
    IF ~canOpen["backend"]
    THEN [backend |-> b, frontend |-> f, code |-> 1]
    ELSE IF ~canOpen["frontend"]
    THEN [backend |-> update_backend_controller(b), frontend |-> f, code |-> 1]
    ELSE [backend |-> update_backend_controller(b),
          frontend |-> update_frontend_api_client(f), code |-> 0]

-----------------------------------------------------------------------------
(* State *)

BackendScripts  == {"precise_fix", "batch1_fix", "standardization"}
FrontendScripts == {"frontend_fix", "standardization"}
Scripts         == BackendScripts \cup FrontendScripts

VARIABLES
    orig,       \* model-tier-admin.controller.ts before any script ran
    origF,      \* frontend/src/api/admin.ts before any script ran
    backend,    \* backend[s]: the controller file in the checkout script s runs in
    frontend,   \* frontend[s]: the API client file in the checkout script s runs in
    prevB,      \* prevB[s]: backend[s] before the latest run of s
    prevF,      \* prevF[s]: frontend[s] before the latest run of s
    runs,       \* runs[s]: how many times s has been run
    hits,       \* line indexes replaced by the latest run of apply-precise-fix.py
    canOpen,    \* canOpen[f]: open(f, 'r') succeeds (the file exists and is readable)
    exitCode    \* exitCode[s]: exit status of the latest run of s (-1: not run)

vars == <<orig, origF, backend, frontend, prevB, prevF, runs, hits, canOpen, exitCode>>

-----------------------------------------------------------------------------
(* Input files *)

\* number of runs of one script in a row
MaxRuns == 2
\* lines of a controller file given to the line-window patcher
MaxLines == 6
\* pieces of a controller file given to the three backend patchers together
MaxChunks == 4
\* pieces of a controller file given to the whole-text patchers
MaxTextChunks == 3
\* pieces of an API client file
MaxFrontChunks == 1

\* lines of a controller file
UpdateLine == <<SP2, UPD, NL>>
RevertLine == <<SP2, REV, NL>>
EndLine    == <<SP2, END, NL>>
AnchorLine == <<IND, ANCHOR, NL>>
CodeLine   == <<CODE, NL>>

\* the old response block on four whole lines
OldBlockLines == old_batch1 \o <<NL>>

\* every text made of at most max pieces
Texts(pieces, max) ==
    UNION { { Flatten(cs) : cs \in [1..n -> pieces] } : n \in 0..max }

\* the pieces of the files each specification starts from (the sets of files
\* are built in the initial predicates)
LinePieces    == {UpdateLine, RevertLine, EndLine, AnchorLine, CodeLine}
BackendPieces == {UpdateLine, RevertLine, EndLine, AnchorLine, OldBlockLines,
                  old_batch1, <<SP2>>}
TextPieces    == {old_batch1, new_batch1, <<SP2>>, CodeLine}
FrontPieces   == {old_frontend, old_pattern, new_frontend, CodeLine}

AllReadable == [f \in {"backend", "frontend"} |-> TRUE]

InitFiles(bfiles, ffiles, opens) ==
    /\ orig \in bfiles
    /\ origF \in ffiles
    /\ canOpen \in opens
    /\ backend = [s \in BackendScripts |-> orig]
    /\ frontend = [s \in FrontendScripts |-> origF]
    /\ prevB = backend
    /\ prevF = frontend
    /\ runs = [s \in Scripts |-> 0]
    /\ hits = <<>>
    /\ exitCode = [s \in Scripts |-> -1]

-----------------------------------------------------------------------------
(* The scripts.  A standalone script ends with status 1 and writes nothing *)
(* when open(file_path, 'r') raises; otherwise it writes the file and ends *)
(* with status 0.                                                          *)

RunPreciseFix(limit) ==
    LET s == "precise_fix" IN
    /\ runs[s] < limit
    /\ runs' = [runs EXCEPT ![s] = @ + 1]
    /\ prevB' = [prevB EXCEPT ![s] = backend[s]]
    /\ IF canOpen["backend"]
       THEN LET res == PreciseFix(backend[s])
            IN  /\ backend' = [backend EXCEPT ![s] = res.content]
                /\ hits' = res.hits
                /\ exitCode' = [exitCode EXCEPT ![s] = 0]
       ELSE /\ exitCode' = [exitCode EXCEPT ![s] = 1]
            /\ UNCHANGED <<backend, hits>>
    /\ UNCHANGED <<orig, origF, frontend, prevF, canOpen>>

RunBatch1Fix(limit) ==
    LET s == "batch1_fix" IN
    /\ runs[s] < limit
    /\ runs' = [runs EXCEPT ![s] = @ + 1]
    /\ prevB' = [prevB EXCEPT ![s] = backend[s]]
    /\ IF canOpen["backend"]
       THEN /\ backend' = [backend EXCEPT ![s] = Batch1Fix(backend[s])]
            /\ exitCode' = [exitCode EXCEPT ![s] = 0]
       ELSE /\ exitCode' = [exitCode EXCEPT ![s] = 1]
            /\ UNCHANGED backend
    /\ UNCHANGED <<orig, origF, frontend, prevF, hits, canOpen>>

RunFrontendFix(limit) ==
    LET s == "frontend_fix" IN
    /\ runs[s] < limit
    /\ runs' = [runs EXCEPT ![s] = @ + 1]
    /\ prevF' = [prevF EXCEPT ![s] = frontend[s]]
    /\ IF canOpen["frontend"]
       THEN /\ frontend' = [frontend EXCEPT ![s] = FrontendFix(frontend[s])]
            /\ exitCode' = [exitCode EXCEPT ![s] = 0]
       ELSE /\ exitCode' = [exitCode EXCEPT ![s] = 1]
            /\ UNCHANGED frontend
    /\ UNCHANGED <<orig, origF, backend, prevB, hits, canOpen>>

RunStandardization(limit) ==
    LET s == "standardization"
        res == main(backend[s], frontend[s], canOpen)
    IN  /\ runs[s] < limit
        /\ runs' = [runs EXCEPT ![s] = @ + 1]
        /\ prevB' = [prevB EXCEPT ![s] = backend[s]]
        /\ prevF' = [prevF EXCEPT ![s] = frontend[s]]
        /\ backend' = [backend EXCEPT ![s] = res.backend]
        /\ frontend' = [frontend EXCEPT ![s] = res.frontend]
        /\ exitCode' = [exitCode EXCEPT ![s] = res.code]
        /\ UNCHANGED <<orig, origF, hits, canOpen>>

-----------------------------------------------------------------------------
(* Specifications *)

\* the line-window patcher, run up to MaxRuns times on a file of lines
InitPrecise == InitFiles(Texts(LinePieces, MaxLines), {old_frontend}, {AllReadable})
NextPrecise == RunPreciseFix(MaxRuns)
SpecPrecise == InitPrecise /\ [][NextPrecise]_vars

\* the three backend patchers, each run once on the same controller file
InitBackend == InitFiles(Texts(BackendPieces, MaxChunks), {old_frontend}, {AllReadable})
NextBackend ==
    \/ RunPreciseFix(1)
    \/ RunBatch1Fix(1)
    \/ RunStandardization(1)
SpecBackend == InitBackend /\ [][NextBackend]_vars

\* the whole-text patchers, each run up to MaxRuns times
InitText ==
    InitFiles(Texts(TextPieces, MaxTextChunks), Texts(FrontPieces, MaxFrontChunks),
              {AllReadable})
NextText ==
    \/ RunBatch1Fix(MaxRuns)
    \/ RunFrontendFix(MaxRuns)
    \/ RunStandardization(MaxRuns)
SpecText == InitText /\ [][NextText]_vars

\* the two literal-replace patchers, each run once
InitLiteral ==
    InitFiles(Texts(TextPieces, MaxTextChunks), Texts(FrontPieces, MaxFrontChunks),
              {AllReadable})
NextLiteral ==
    \/ RunBatch1Fix(1)
    \/ RunFrontendFix(1)
SpecLiteral == InitLiteral /\ [][NextLiteral]_vars

\* all four scripts, each run once, with files that may be unreadable
Init ==
    InitFiles(Texts(TextPieces, MaxTextChunks), Texts(FrontPieces, MaxFrontChunks),
              [{"backend", "frontend"} -> BOOLEAN])
Next ==
    \/ RunPreciseFix(1)
    \/ RunBatch1Fix(1)
    \/ RunFrontendFix(1)
    \/ RunStandardization(1)
Spec == Init /\ [][Next]_vars

-----------------------------------------------------------------------------
(* Vocabulary of the properties *)

P == "precise_fix"
B == "batch1_fix"
F == "frontend_fix"
S == "standardization"

Range(seq) == { seq[n] : n \in 1..Len(seq) }

\* pat stands in text at position i
OccursAt(text, pat, i) ==
    /\ i >= 1
    /\ i + Len(pat) - 1 <= Len(text)
    /\ SubSeq(text, i, i + Len(pat) - 1) = pat

Occurrences(text, pat) == { i \in 1..Len(text) : OccursAt(text, pat, i) }

NumOcc(text, pat) == Cardinality(Occurrences(text, pat))

\* text with the occurrence of pat at position i replaced by repl
Spliced(text, pat, repl, i) ==
    SubSeq(text, 1, i - 1) \o repl \o SubSeq(text, i + Len(pat), Len(text))

\* number of the line that holds position i of text
LineOf(text, i) == 1 + Cardinality({ j \in 1..(i - 1) : text[j] = NL })

IsEnd(line) == Strip(line) = <<END>>

\* line k lies in a region that runs from a line containing marker to the
\* first following line whose stripped text is '};'
InRegionOf(lines, marker, k) ==
    \E st \in 1..k :
        /\ Contains(lines[st], marker)
        /\ \A j \in (st + 1)..(k - 1) : ~IsEnd(lines[j])

InUpdateRegion(lines, k) == InRegionOf(lines, UPD, k)
InRevertRegion(lines, k) == InRegionOf(lines, REV, k)
InRegion(lines, k) == InUpdateRegion(lines, k) \/ InRevertRegion(lines, k)

AnchorLines(lines) == { k \in 1..Len(lines) : Contains(lines[k], ANCHOR) }

\* lines[from..to], clipped to the lines there are
Slice(lines, from, to) ==
    SubSeq(lines, from, IF to > Len(lines) THEN Len(lines) ELSE to)

-----------------------------------------------------------------------------
(* apply-precise-fix.py: C1, C4, C5 (SpecPrecise), C9 (SpecBackend) *)

\* C1: running apply-precise-fix.py a second time leaves the file as the first
\* run wrote it.
C1_PreciseIdempotent ==
    runs[P] >= 2 => backend[P] = prevB[P]

\* C4: an anchor line outside both method regions is never replaced (so the
\* lines after it are not dropped with it).
C4_OutsideAnchorUntouched ==
    runs[P] >= 1 =>
        LET lines == ReadLines(prevB[P])
        IN  \A k \in AnchorLines(lines) :
                ~InRegion(lines, k) => k \notin Range(hits)

\* some start line is followed by no line whose stripped text is '};'
Unterminated(lines) ==
    \E st \in 1..Len(lines) :
        /\ Contains(lines[st], UPD) \/ Contains(lines[st], REV)
        /\ \A j \in (st + 1)..Len(lines) : ~IsEnd(lines[j])

\* C5: on a file with an unterminated method the script replaces nothing and
\* the file is the same after the run.
C5_UnterminatedUntouched ==
    (runs[P] >= 1 /\ Unterminated(ReadLines(prevB[P]))) =>
        (hits = <<>> /\ backend[P] = prevB[P])

\* the lines a run removes: each hit line and the 3 after it
Removed(lines) ==
    { k \in 1..Len(lines) : \E h \in Range(hits) : h <= k /\ k <= h + 3 }

\* C9: each hit is an anchor line, reached after a method start; the hit line
\* and the next 3 lines (or those left) are removed and the 8 replacement
\* lines stand in their place; every other line is kept once, in order; the
\* file grows by 8 lines per hit minus the lines removed (4 per full window).
C9_WindowReplacement ==
    runs[P] >= 1 =>
        LET lines == ReadLines(prevB[P])
            piece(k) == IF k \in Range(hits) THEN Flatten(ReplacementLines)
                        ELSE IF k \in Removed(lines) THEN <<>>
                        ELSE lines[k]
        IN  /\ \A n \in 1..Len(hits) :
                /\ hits[n] \in AnchorLines(lines)
                /\ \E st \in 1..hits[n] :
                       Contains(lines[st], UPD) \/ Contains(lines[st], REV)
                /\ n < Len(hits) => hits[n] + 4 <= hits[n + 1]
            /\ backend[P] = Flatten([k \in 1..Len(lines) |-> piece(k)])
            /\ Len(ReadLines(backend[P])) =
                   Len(lines) + 8 * Len(hits) - Cardinality(Removed(lines))
            /\ \A n \in 1..Len(hits) :
                   SubSeq(ReadLines(backend[P]), hits[n] + 4 * (n - 1),
                          hits[n] + 4 * (n - 1) + 7) = ReplacementLines

\* C9's case: a run with a full window in the middle of the file and a
\* second window cut short by the end of the file
C9_Witness ==
    /\ runs[P] = 1
    /\ Len(hits) = 2
    /\ hits[1] > 1
    /\ hits[2] >= hits[1] + 4
    /\ hits[2] + 3 > Len(ReadLines(prevB[P]))
    /\ backend[P] # prevB[P]

-----------------------------------------------------------------------------
(* The whole-text patchers: C2 (SpecText), C7 (SpecLiteral) *)

\* C2: a second run of a whole-text patcher leaves the file as the first run
\* wrote it: apply-batch1-fix.py, apply-frontend-fix.py and both updates of
\* apply-batch1-standardization.py.
C2_TextIdempotent ==
    /\ runs[B] >= 2 => backend[B] = prevB[B]
    /\ runs[F] >= 2 => frontend[F] = prevF[F]
    /\ runs[S] >= 2 => (backend[S] = prevB[S] /\ frontend[S] = prevF[S])

\* one run of a literal-replace patcher on a file that held pat exactly once
ExactlyOnce(before, after, pat, repl, newCount) ==
    NumOcc(before, pat) = 1 =>
        /\ NumOcc(after, pat) = 0
        /\ NumOcc(after, repl) = newCount
        /\ \A i \in Occurrences(before, pat) : after = Spliced(before, pat, repl, i)

\* C7 as stated: where the old block occurs exactly once, the result holds no
\* old block, holds the new block exactly once, and the text before and after
\* the replaced span is the input's.
C7_ExactlyOnce_Original ==
    /\ runs[B] >= 1 => ExactlyOnce(prevB[B], backend[B], old_batch1, new_batch1, 1)
    /\ runs[F] >= 1 => ExactlyOnce(prevF[F], frontend[F], old_frontend, new_frontend, 1)

\* C7 (amended): where the old block occurs exactly once, the result holds no
\* old block, holds the new block once more than the input did, and the text
\* before and after the replaced span is the input's.
C7_ExactlyOnce ==
    /\ runs[B] >= 1 =>
           ExactlyOnce(prevB[B], backend[B], old_batch1, new_batch1,
                       NumOcc(prevB[B], new_batch1) + 1)
    /\ runs[F] >= 1 =>
           ExactlyOnce(prevF[F], frontend[F], old_frontend, new_frontend,
                       NumOcc(prevF[F], new_frontend) + 1)

\* C7's case: both literal-replace patchers have run on files holding the old
\* block once, the backend file after a new block and some other text
C7_Witness ==
    /\ runs[B] = 1 /\ NumOcc(prevB[B], old_batch1) = 1
    /\ NumOcc(prevB[B], new_batch1) = 1
    /\ Len(prevB[B]) > Len(old_batch1) + Len(new_batch1)
    /\ backend[B] # prevB[B]
    /\ runs[F] = 1 /\ NumOcc(prevF[F], old_frontend) = 1
    /\ frontend[F] # prevF[F]

-----------------------------------------------------------------------------
(* main() of apply-batch1-standardization.py: C6, C8 (Spec) *)

\* the rule's pattern matched the file, or its replacement was already there
MatchedOrApplied(text, pat, repl) ==
    Occurrences(text, pat) # {} \/ Occurrences(text, repl) # {}

\* C6: main() returns 0 only if both rules matched their file or were already
\* applied; a file with neither the old pattern nor the replacement makes it
\* return 1.
C6_NotFoundReported ==
    (runs[S] >= 1 /\ exitCode[S] = 0) =>
        /\ MatchedOrApplied(prevB[S], old_pattern_1, new_code_1)
        /\ MatchedOrApplied(prevF[S], old_pattern, new_code)

\* C8: a failure on one file does not keep the other file from being patched.
C8_FilesIndependent ==
    runs[S] >= 1 =>
        /\ canOpen["frontend"] => frontend[S] = update_frontend_api_client(prevF[S])
        /\ canOpen["backend"] => backend[S] = update_backend_controller(prevB[S])

-----------------------------------------------------------------------------
(* The three backend patchers on one file: C3, C10 (SpecBackend) *)

\* the file holds exactly two anchor lines, both inside one method region
TwoAnchorsInOneRegion(lines) ==
    \E a, b \in AnchorLines(lines) :
        /\ a < b
        /\ AnchorLines(lines) = {a, b}
        /\ \E st \in 1..a :
               /\ Contains(lines[st], UPD) \/ Contains(lines[st], REV)
               /\ \A j \in (st + 1)..(b - 1) : ~IsEnd(lines[j])

BothReplaced(before, after, pat, repl) ==
    \E i, j \in Occurrences(before, pat) :
        /\ i + Len(pat) <= j
        /\ after = Spliced(Spliced(before, pat, repl, j), pat, repl, i)

\* the lines with the windows at a and b replaced (b beyond a's window), or
\* with the one window at a replaced (b within a's window)
BothWindowsReplaced(lines, a, b) ==
    IF a + 4 <= b
    THEN /\ hits = <<a, b>>
         /\ backend[P] = Flatten(Slice(lines, 1, a - 1) \o ReplacementLines
                                 \o Slice(lines, a + 4, b - 1) \o ReplacementLines
                                 \o Slice(lines, b + 4, Len(lines)))
    ELSE /\ hits = <<a>>
         /\ backend[P] = Flatten(Slice(lines, 1, a - 1) \o ReplacementLines
                                 \o Slice(lines, a + 4, Len(lines)))

AllRan == runs[P] = 1 /\ runs[B] = 1 /\ runs[S] = 1

\* the old block occurs only inside the two methods, at most once in each
OldOnlyInMethods(text) ==
    LET lines == ReadLines(text)
        occ   == Occurrences(text, old_batch1)
    IN  /\ \A i \in occ : InRegion(lines, LineOf(text, i))
        /\ Cardinality({ i \in occ : InUpdateRegion(lines, LineOf(text, i)) }) <= 1
        /\ Cardinality({ i \in occ : InRevertRegion(lines, LineOf(text, i)) }) <= 1

\* every old block stands on four whole lines of its own
OldOnWholeLines(text) ==
    \A i \in Occurrences(text, old_batch1) :
        /\ i = 1 \/ text[i - 1] = NL
        /\ OccursAt(text, old_batch1 \o <<NL>>, i)

\* every anchor line inside a method is the first line of an old block
NoOtherAnchorInMethods(text) ==
    LET lines == ReadLines(text)
    IN  \A k \in AnchorLines(lines) :
            InRegion(lines, k) =>
                \E i \in Occurrences(text, old_batch1) : LineOf(text, i) = k

\* C10 as stated: where the old block occurs only inside the two methods and
\* at most once in each, the three backend patchers write the same file; the
\* two whole-text patchers agree wherever the old block occurs at most twice.
C10_Equivalent_Original ==
    AllRan =>
        /\ OldOnlyInMethods(orig) =>
               (backend[P] = backend[B] /\ backend[B] = backend[S])
        /\ NumOcc(orig, old_batch1) <= 2 => backend[B] = backend[S]

\* C10 (amended): where the old block occurs only inside the two methods, at
\* most once in each, each time on four whole lines of its own (its last line
\* ended by a newline), and no other line inside the methods contains the
\* anchor, the three backend patchers write the same file; the two whole-text
\* patchers agree wherever the old block occurs at most twice.
C10_Equivalent ==
    AllRan =>
        /\ (/\ OldOnlyInMethods(orig)
            /\ OldOnWholeLines(orig)
            /\ NoOtherAnchorInMethods(orig)) =>
               (backend[P] = backend[B] /\ backend[B] = backend[S])
        /\ NumOcc(orig, old_batch1) <= 2 => backend[B] = backend[S]

\* C10's case: the three patchers have rewritten a file with an old block
\* inside a method that is closed after it
C10_Witness ==
    /\ AllRan
    /\ OldOnlyInMethods(orig)
    /\ OldOnWholeLines(orig)
    /\ NoOtherAnchorInMethods(orig)
    /\ NumOcc(orig, old_batch1) = 1
    /\ \E k \in 1..Len(ReadLines(orig)) :
           IsEnd(ReadLines(orig)[k]) /\ \A h \in Range(hits) : h < k
    /\ backend[P] # orig
    /\ backend[P] = backend[B]

=============================================================================
